---- MODULE Spec2Model ----
(***************************************************************************)
(* Volcano: the worker's per-room Queue (dist/worker.js) and the gateway's *)
(* PLAY routing (src/index.ts).                                            *)
(*                                                                         *)
(* A worker is a record W (its module-level state: queues, methodMap, the  *)
(* Queue objects and the play() calls in flight).  Every method of the     *)
(* source is an operator from a worker record to a worker record, so that  *)
(* a handler is the composition of the calls it makes.  One TLA+ action is *)
(* one macrotask of the event loop; the promise continuations it makes     *)
(* runnable are run at its end (Flush), as the microtask queue does.       *)
(*                                                                         *)
(* Times are in units of 1000 ms.                                          *)
(***************************************************************************)
EXTENDS Integers, Sequences, FiniteSets, TLC

\* ------------------------------------------------------------------ bounds
MaxCmds == 2       \* packets handled by the worker in a run of Spec
MaxRearms == 3     \* packets handled by the worker in a run of SpecRearm
MaxDestroys == 3   \* packets handled by the worker in a run of SpecDestroy
MaxDur == 1        \* cap on a resource's playbackDuration
MaxFrames == 3     \* client frames accepted by the gateway in a run of SpecPool
NWorkers == 2      \* pool size (os.cpus().length)

\* --------------------------------------------------------------- constants
SeekLead == 2      \* the 2000 ms added to the position when a re-arm seeks

Workers == 1..NWorkers
Keys == {<<1, 100>>, <<1, 200>>, <<12, 100>>}        \* (clientID, guildId)

\* ------------------------------------------------------------------ values
NoTrack == [id |-> 0, src |-> "none", start |-> 0, end |-> 0, volume |-> 100, pause |-> FALSE]

NoSpec == [volume |-> 0, equalizer |-> FALSE, timescale |-> 0, tremolo |-> FALSE,
           vibrato |-> FALSE, rotation |-> FALSE, lowPass |-> 0]

\* A packet as the worker receives it; the fields an op does not use keep
\* these defaults.
NoPacket == [op |-> "NONE", dop |-> "none", key |-> <<0, 0>>, broadcasted |-> FALSE,
             threadID |-> 0, src |-> "none", startTime |-> 0, endTime |-> 0,
             volume |-> 100, pause |-> FALSE, noReplace |-> FALSE, position |-> 0,
             args |-> <<>>, filters |-> NoSpec,
             sessionId |-> 0]    \* VOICE_SERVER: the VoiceServerState carried

\* A message posted to the parent port.
Msg(op, type, key, reason, track, data, data2, threadID) ==
    [op |-> op, type |-> type, key |-> key, reason |-> reason, track |-> track,
     data |-> data, data2 |-> data2, threadID |-> threadID]

Event(type, key, reason, track) == Msg("MESSAGE", type, key, reason, track, 0, 0, 0)

\* a REPLY: kind says what data holds ("bool": 1 for true, "count", "stats")
Reply(threadID, kind, data, data2) == Msg("REPLY", kind, <<0, 0>>, "", 0, data, data2, threadID)

Ms(n) == IF n = 0 THEN "0ms" ELSE ToString(n) \o "000ms"

IndexOf(s, x) == IF \E i \in 1..Len(s) : s[i] = x
                 THEN CHOOSE i \in 1..Len(s) : s[i] = x /\ \A j \in 1..(i - 1) : s[j] # x
                 ELSE 0

Includes(s, x) == IndexOf(s, x) # 0

\* Array.prototype.splice(index, count), index counted from 1 here
Splice(s, index, count) ==
    SubSeq(s, 1, index - 1) \o SubSeq(s, index + count, Len(s))

\* Array.prototype.slice(index, index + count), index counted from 1 here
Slice(s, index, count) ==
    SubSeq(s, index, IF index + count - 1 > Len(s) THEN Len(s) ELSE index + count - 1)

\* --------------------------------------------------------------- the Queue
NewQueue(key) ==
    [key |-> key, track |-> NoTrack, current |-> 0, stopping |-> FALSE, filters |-> <<>>,
     volume |-> 100, applyingFilters |-> FALSE, shouldntCallFinish |-> FALSE,
     trackPausing |-> FALSE, initial |-> TRUE, seekTime |-> 0, destroyed |-> FALSE,
     paused |-> FALSE, rate |-> 1,
     status |-> "Idle", pres |-> 0,      \* this.player.state: status and resource
     conn |-> "live"]                    \* this.connection

\* One call of play(): its position, what it captured, and the resource it
\* built (the resource's id is the call's index in W.plays).
NewPlay(o, meta, by) ==
    [q |-> o, pc |-> "start", meta |-> meta, track |-> NoTrack, built |-> FALSE,
     ffmpeg |-> FALSE, pre |-> <<>>, af |-> <<>>, dur |-> 0, dead |-> FALSE,
     by |-> by,               \* who called play(): "play", "seek", "filters", "ffmpeg"
     onPlaying |-> FALSE,     \* the player was Playing when play() was called
     installed |-> FALSE]     \* the resource was handed to the player

NewWorker ==
    [queues |-> [k \in Keys |-> 0], objs |-> <<>>, plays |-> <<>>, methodMap |-> {},
     closed |-> FALSE, ticking |-> TRUE, ntracks |-> 0, out |-> <<>>,
     calls |-> <<>>]          \* the adapter callbacks invoked in this macrotask

BaseArgs == <<"-i", "-", "-analyzeduration", "0", "-loglevel", "0", "-f", "s16le",
              "-acodec", "libopus", "-f", "opus", "-ar", "48000", "-ac", "2">>

\* the argument list handed to prism.FFmpeg by the play() call p
Argus(p) == p.pre \o BaseArgs \o p.af

Post(W, m) == [W EXCEPT !.out = Append(@, m)]

\* AudioPlayer's state setter followed by the Queue's stateChange handler. The
\* setter destroys the stream of the resource it drops and emits stateChange
\* synchronously; a play() call waiting for Playing is resolved by it.
PlayerSet(W, o, status, res) ==
    LET q == W.objs[o]
        \* the handler's branch for Idle, the fields cleared
        Idled(W2) ==
            [(IF ~q.stopping /\ ~q.shouldntCallFinish
              THEN Post(W2, Event("TrackEndEvent", q.key, "FINISHED", 0))
              ELSE W2)
                EXCEPT !.objs[o].stopping = FALSE, !.objs[o].shouldntCallFinish = FALSE]
        \* the handler's branch for Playing, after trackPausing was served
        Started(W3) ==
            [(IF (~q.shouldntCallFinish \/ q.initial) /\ q.track # NoTrack
              THEN Post(W3, Event("TrackStartEvent", q.key, "", q.track.id))
              ELSE W3)
                EXCEPT !.objs[o].initial = FALSE]
        Handler(W1) ==
            IF status = "Idle" /\ q.status # "Idle"
            THEN Idled([W1 EXCEPT !.objs[o].current = 0, !.objs[o].track = NoTrack])
            ELSE IF status = "Playing"
            THEN Started([W1 EXCEPT     \* this.pause(): the player is Playing by now
                            !.objs[o].status = IF q.trackPausing THEN "Paused" ELSE @,
                            !.objs[o].paused = IF q.trackPausing THEN TRUE ELSE @,
                            !.objs[o].trackPausing = FALSE])
            ELSE W1
    IN  Handler([W EXCEPT !.objs[o].status = status, !.objs[o].pres = res,
                          !.plays = [i \in 1..Len(@) |->
                              IF i = q.pres /\ q.pres # res THEN [@[i] EXCEPT !.dead = TRUE]
                              ELSE IF @[i].q = o /\ @[i].pc = "wait" /\ status = "Playing"
                                   THEN [@[i] EXCEPT !.pc = "resolved"]
                              ELSE @[i]]])

\* Queue.pause: this.paused = this.player.pause(true)
Pause(W, o) ==
    IF W.objs[o].status = "Playing"
    THEN [PlayerSet(W, o, "Paused", W.objs[o].pres) EXCEPT !.objs[o].paused = TRUE]
    ELSE [W EXCEPT !.objs[o].paused = FALSE]

\* Queue.resume: this.paused = !this.player.unpause()
Resume(W, o) ==
    IF W.objs[o].status = "Paused"
    THEN [PlayerSet(W, o, "Playing", W.objs[o].pres) EXCEPT !.objs[o].paused = FALSE]
    ELSE [W EXCEPT !.objs[o].paused = TRUE]

\* Queue.stop: player.stop(true) is a no-op on an Idle player
Stop(W, o, shouldntPost) ==
    LET Halted(W2) ==
            IF ~shouldntPost
            THEN Post(W2, Event("TrackEndEvent", W.objs[o].key, "STOPPED", 0))
            ELSE W2
    IN  Halted(IF W.objs[o].status # "Idle"
               THEN PlayerSet([W EXCEPT !.objs[o].stopping = TRUE], o, "Idle", 0)
               ELSE [W EXCEPT !.objs[o].stopping = TRUE])

\* the position the state getter computes
Position(W, o) ==
    LET q == W.objs[o]
    IN  ((IF q.current # 0 THEN W.plays[q.current].dur ELSE 0) + q.seekTime) * q.rate

\* the state getter's side effect
GetState(W, o) ==
    LET q == W.objs[o]
    IN  IF q.track # NoTrack /\ q.track.end # 0 /\ Position(W, o) >= q.track.end
        THEN Stop(W, o, TRUE)
        ELSE W

\* config.lavalink.server.sources, all enabled by default
SourceEnabled(src) == src \in {"youtube", "soundcloud", "local", "http"}

\* demux() on the branch that transcodes: the filter chain is read here, and
\* this.state is read once, or three times when the position is used
DemuxFilter(W, pid) ==
    LET o == W.plays[pid].q
        meta == W.plays[pid].meta
        f == W.objs[o].filters
        ix == IndexOf(f, "-ss")
        \* new prism.FFmpeg({ args: argus }) and the resource, on worker Wr
        Transcoder(Wr, pre) ==
            [Wr EXCEPT !.objs[o].applyingFilters = FALSE,
                       !.plays[pid] = [@ EXCEPT !.built = TRUE, !.ffmpeg = TRUE, !.pre = pre,
                                         !.af = IF Len(Wr.objs[o].filters) > 0
                                                THEN <<"-af">> \o Wr.objs[o].filters
                                                ELSE <<>>,
                                         !.pc = "cont"]]
        \* the third read of this.state, for seekTime
        Third(G2, pos2) ==
            Transcoder([GetState(G2, o) EXCEPT !.objs[o].seekTime = Position(G2, o) + SeekLead],
                       <<"-ss", Ms(pos2 + SeekLead), "-accurate_seek">>)
        \* after the first read of this.state
        First(G1, pos1) ==
            IF pos1 # 0 /\ ix = 0
            THEN Third(GetState(G1, o), Position(G1, o))
            ELSE IF ix # 0
            THEN Transcoder([G1 EXCEPT !.objs[o].filters = Splice(f, ix, 3)], Slice(f, ix, 2))
            ELSE IF meta.start # 0
            THEN Transcoder([G1 EXCEPT !.objs[o].seekTime = meta.start],
                            <<"-ss", Ms(meta.start), "-accurate_seek">>)
            ELSE Transcoder(G1, <<>>)
        Marked(W1) == First(GetState(W1, o), Position(W1, o))
    IN  Marked([W EXCEPT !.objs[o].shouldntCallFinish = TRUE])

\* demux(): transcode when there are filters or a start offset, else probe
Demux(W, pid) ==
    LET o == W.plays[pid].q
    IN  IF Len(W.objs[o].filters) > 0 \/ W.plays[pid].meta.start # 0
        THEN DemuxFilter(W, pid)
        ELSE [W EXCEPT !.plays[pid].pc = "probe"]

\* play() up to its first suspension
Play(W, o, by) ==
    LET q == W.objs[o]
        pid == Len(W.plays) + 1
        Called(W1) ==
            IF ~SourceEnabled(q.track.src) THEN [W1 EXCEPT !.plays[pid].pc = "done"]
            ELSE IF q.track.src = "local" THEN Demux(W1, pid)
            ELSE [W1 EXCEPT !.plays[pid].pc = "fetch"]
    IN  IF q.track = NoTrack THEN W
        ELSE Called([W EXCEPT !.plays = Append(@, [NewPlay(o, q.track, by) EXCEPT
                                                    !.onPlaying = (q.status = "Playing")])])

\* play() from the resolution of its resource promise to the wait for Playing
PlayCont(W, pid) ==
    LET p == W.plays[pid]
        o == p.q
        q == W.objs[o]
        \* after this.player.play(resource)
        Handed(W2) ==
            [W2 EXCEPT !.objs[o].volume = IF p.meta.volume # 0 /\ p.meta.volume # 100
                                          THEN p.meta.volume ELSE @,
                       !.plays[pid].track = W2.objs[o].track, !.plays[pid].pc = "wait"]
    IN  IF ~p.built THEN [W EXCEPT !.plays[pid].pc = "done"]
        ELSE IF q.applyingFilters
        THEN [W EXCEPT !.plays[pid].pc = "done", !.plays[pid].dead = TRUE]
        ELSE Handed(PlayerSet([W EXCEPT !.objs[o].current = pid, !.plays[pid].installed = TRUE,
                                        !.objs[o].trackPausing = (p.meta.pause \/ @)],
                              o, "Buffering", pid))

\* play() after the player entered Playing in time
WaitDone(W, pid) ==
    LET o == W.plays[pid].q
    IN  [W EXCEPT !.objs[o].shouldntCallFinish = FALSE, !.objs[o].stopping = FALSE,
                  !.plays[pid].pc = "done"]

\* play() after PlayerStuckThresholdMS without Playing
Stuck(W, pid) ==
    LET o == W.plays[pid].q
        Caught(W1) ==
            [Post(W1, Event("TrackStuckEvent", W1.objs[o].key, "", W1.objs[o].track.id))
                EXCEPT !.objs[o].current = 0, !.objs[o].track = NoTrack,
                       !.objs[o].shouldntCallFinish = FALSE, !.objs[o].stopping = FALSE]
    IN  IF W.objs[o].track # W.plays[pid].track THEN [W EXCEPT !.plays[pid].pc = "done"]
        ELSE Caught(Stop([W EXCEPT !.plays[pid].pc = "done"], o, TRUE))

Runnable(W) == {i \in 1..Len(W.plays) : W.plays[i].pc \in {"cont", "resolved"}}

\* the microtask queue: the continuations made runnable by this macrotask
RECURSIVE Flush(_)
Flush(W) ==
    IF Runnable(W) = {} THEN W
    ELSE LET i == CHOOSE i \in Runnable(W) : \A j \in Runnable(W) : i <= j
         IN  Flush(IF W.plays[i].pc = "cont" THEN PlayCont(W, i) ELSE WaitDone(W, i))

NextSong(W, o) ==
    IF W.objs[o].track = NoTrack
    THEN [W EXCEPT !.objs[o].seekTime = 0, !.objs[o].initial = TRUE]
    ELSE Play([W EXCEPT !.objs[o].seekTime = 0, !.objs[o].initial = TRUE], o, "play")

Replace(W, o) ==
    NextSong(IF W.objs[o].status = "Playing"
             THEN Post(Stop(W, o, TRUE), Event("TrackEndEvent", W.objs[o].key, "REPLACED", 0))
             ELSE W,
             o)

QueueTrack(W, o, track) == Replace([W EXCEPT !.objs[o].track = track], o)

\* destroy() without its guard on _destroyed
DestroyUnguarded(W, o) ==
    LET key == W.objs[o].key
        Deleted(W3) ==
            IF \A k \in Keys : W3.queues[k] = 0
            THEN [Post(W3, Msg("CLOSE", "", <<0, 0>>, "", 0, 0, 0, 0))
                     EXCEPT !.ticking = FALSE, !.closed = TRUE]
            ELSE W3
    IN  Deleted([Stop([W EXCEPT !.objs[o].destroyed = TRUE, !.objs[o].track = NoTrack],
                      o, TRUE)
                    EXCEPT !.objs[o].conn = "destroyed", !.methodMap = @ \ {key},
                           !.queues[key] = 0])

Destroy(W, o) ==
    LET key == W.objs[o].key
        Deleted(W3) ==
            IF \A k \in Keys : W3.queues[k] = 0
            THEN [Post(W3, Msg("CLOSE", "", <<0, 0>>, "", 0, 0, 0, 0))
                     EXCEPT !.ticking = FALSE, !.closed = TRUE]
            ELSE W3
    IN  IF W.objs[o].destroyed THEN W
        ELSE Deleted([Stop([W EXCEPT !.objs[o].destroyed = TRUE, !.objs[o].track = NoTrack],
                           o, TRUE)
                         EXCEPT !.objs[o].conn = "destroyed", !.methodMap = @ \ {key},
                                !.queues[key] = 0])

Volume(W, o, amount) == [W EXCEPT !.objs[o].volume = amount]

\* seek(), filters() and ffmpeg() end alike: play() unless a re-arm is under
\* way, then the flag
Rearm(W, o, by) ==
    [(IF ~W.objs[o].applyingFilters THEN Play(W, o, by) ELSE W)
        EXCEPT !.objs[o].applyingFilters = TRUE]

Seek(W, o, amount) ==
    LET f == W.objs[o].filters
        previousIndex == IndexOf(f, "-ss")
        f1 == IF previousIndex # 0 THEN Splice(f, previousIndex, 2) ELSE f
    IN  [Rearm([W EXCEPT !.objs[o].filters = f1 \o <<"-ss", Ms(amount), "-accurate_seek">>],
               o, "seek")
            EXCEPT !.objs[o].seekTime = amount]

\* the ffmpeg filters a FilterSpec produces, in order (equalizer apart)
SpecFilters(fs) ==
    (IF fs.volume # 0 THEN <<"volume=" \o ToString(fs.volume)>> ELSE <<>>)
    \o (IF fs.timescale # 0
        THEN <<"aresample=48000,asetrate=48000*1,atempo=" \o ToString(fs.timescale)
               \o ",aresample=48000">>
        ELSE <<>>)
    \o (IF fs.tremolo THEN <<"tremolo=f=2:d=0.5">> ELSE <<>>)
    \o (IF fs.vibrato THEN <<"vibrato=f=2:d=0.5">> ELSE <<>>)
    \o (IF fs.rotation THEN <<"apulsator=hz=0">> ELSE <<>>)
    \o (IF fs.lowPass # 0 THEN <<"lowpass=f=" \o ToString(500 \div fs.lowPass)>> ELSE <<>>)

\* Queue.filters. With a non-empty equalizer, bandSettings.find reads .band
\* of a hole of Array(15) and throws: the call ends with the chain cleared.
Filters(W, o, fs) ==
    LET f == W.objs[o].filters
        ix == IndexOf(f, "-ss")
        kept == IF ix # 0
                THEN <<"-ss", IF ix + 2 <= Len(f) THEN f[ix + 2] ELSE "undefined">>
                ELSE <<>>
    IN  IF fs.equalizer THEN [W EXCEPT !.objs[o].filters = <<>>]
        ELSE Rearm([W EXCEPT !.objs[o].rate = IF fs.timescale # 0 THEN fs.timescale ELSE @,
                             !.objs[o].filters = kept \o SpecFilters(fs)],
                   o, "filters")

Ffmpeg(W, o, args) == Rearm([W EXCEPT !.objs[o].filters = args], o, "ffmpeg")

\* ------------------------------------------------- the worker's message loop
\* the PLAY case without its test of noReplace
OnPlayReplacing(W, pkt) ==
    LET key == pkt.key
        o == W.queues[key]
        track == [id |-> W.ntracks + 1, src |-> pkt.src, start |-> pkt.startTime,
                  end |-> pkt.endTime, volume |-> pkt.volume, pause |-> pkt.pause]
        n == Len(W.objs) + 1
        Replied(b) == IF pkt.broadcasted THEN Post(W, Reply(pkt.threadID, "bool", b, 0)) ELSE W
    IN  IF o = 0 /\ pkt.broadcasted THEN Replied(0)
        ELSE QueueTrack(
               IF o = 0
               THEN Post([W EXCEPT !.methodMap = @ \cup {key}, !.objs = Append(@, NewQueue(key)),
                                   !.queues[key] = n, !.ntracks = @ + 1],
                         Msg("VOICE_SERVER", "", key, "", 0, 0, 0, 0))
               ELSE [Replied(1) EXCEPT !.ntracks = @ + 1],
               IF o = 0 THEN n ELSE o, track)

\* parentPort message handler, op MESSAGE / PLAY
OnPlay(W, pkt) ==
    LET key == pkt.key
        o == W.queues[key]
        track == [id |-> W.ntracks + 1, src |-> pkt.src, start |-> pkt.startTime,
                  end |-> pkt.endTime, volume |-> pkt.volume, pause |-> pkt.pause]
        n == Len(W.objs) + 1
        Replied(b) == IF pkt.broadcasted THEN Post(W, Reply(pkt.threadID, "bool", b, 0)) ELSE W
    IN  IF o = 0 /\ pkt.broadcasted THEN Replied(0)
        ELSE IF o # 0 /\ pkt.noReplace /\ W.objs[o].status = "Playing" THEN Replied(1)
        ELSE QueueTrack(
               IF o = 0
               THEN Post([W EXCEPT !.methodMap = @ \cup {key}, !.objs = Append(@, NewQueue(key)),
                                   !.queues[key] = n, !.ntracks = @ + 1],
                         Msg("VOICE_SERVER", "", key, "", 0, 0, 0, 0))
               ELSE [Replied(1) EXCEPT !.ntracks = @ + 1],
               IF o = 0 THEN n ELSE o, track)

\* the Queue objects in the map, in the Map's (insertion) order
Live(W) == {W.queues[k] : k \in {k \in Keys : W.queues[k] # 0}}

RECURSIVE DestroyAll(_, _)
DestroyAll(W, os) ==
    IF os = {} THEN W
    ELSE LET o == CHOOSE o \in os : \A x \in os : o <= x
         IN  DestroyAll(Destroy(W, o), os \ {o})

\* parentPort message handler
OnMessage(W, pkt) ==
    LET o == IF pkt.key \in Keys THEN W.queues[pkt.key] ELSE 0
        forUser == {x \in Live(W) : W.objs[x].key[1] = pkt.key[1]}
    IN  CASE pkt.op = "STATS" ->
               Post(W, Reply(pkt.threadID, "stats",
                             Cardinality({x \in Live(W) : ~W.objs[x].paused}),
                             Cardinality(Live(W))))
          [] pkt.op = "MESSAGE" /\ pkt.dop = "play" -> OnPlay(W, pkt)
          [] pkt.op = "MESSAGE" /\ pkt.dop = "destroy" /\ o # 0 -> Destroy(W, o)
          [] pkt.op = "MESSAGE" /\ pkt.dop = "pause" /\ o # 0 ->
               IF pkt.pause THEN Pause(W, o) ELSE Resume(W, o)
          [] pkt.op = "MESSAGE" /\ pkt.dop = "stop" /\ o # 0 -> Stop(W, o, FALSE)
          [] pkt.op = "MESSAGE" /\ pkt.dop = "filters" /\ o # 0 -> Filters(W, o, pkt.filters)
          [] pkt.op = "MESSAGE" /\ pkt.dop = "seek" /\ o # 0 -> Seek(W, o, pkt.position)
          [] pkt.op = "MESSAGE" /\ pkt.dop = "ffmpeg" /\ o # 0 -> Ffmpeg(W, o, pkt.args)
          [] pkt.op = "MESSAGE" /\ pkt.dop = "volume" /\ o # 0 -> Volume(W, o, pkt.volume)
          [] pkt.op = "VOICE_SERVER" ->
               IF pkt.key \in W.methodMap
               THEN [W EXCEPT !.calls = @ \o << <<"onVoiceStateUpdate", pkt.key, pkt.sessionId>>,
                                                <<"onVoiceServerUpdate", pkt.key, pkt.sessionId>> >>]
               ELSE W
          [] pkt.op = "DELETE_ALL" ->
               DestroyAll(Post(W, Reply(pkt.threadID, "count", Cardinality(forUser), 0)), forUser)
          [] OTHER -> W

\* reportInterval: the getter is read for every queue, paused or not
RECURSIVE Report(_, _)
Report(W, os) ==
    IF os = {} THEN W
    ELSE LET o == CHOOSE o \in os : \A x \in os : o <= x
             Told(W1) ==
                 IF ~W1.objs[o].paused
                 THEN Post(W1, Msg("MESSAGE", "playerUpdate", W.objs[o].key, "", 0,
                                   Position(W, o), 0, 0))
                 ELSE W1
         IN  Report(Told(GetState(W, o)), os \ {o})

\* a stream error: the player emits "error" (the Queue posts
\* TrackExceptionEvent) and then drops the resource
StreamError(W, o) ==
    PlayerSet(Post(W, Event("TrackExceptionEvent", W.objs[o].key, "", W.objs[o].track.id)),
              o, "Idle", 0)

\* ------------------------------------------------------------------- state
VARIABLES
    wk,         \* the workers: wk[w] is worker w's record
    inbox,      \* inbox[w]: packets posted to worker w, not yet handled
    pending,    \* the gateway's PLAY handlers that await their broadcast
    nthread,    \* the pool's thread-id cookie
    playerMap,  \* the gateway's playerMap: per key the socket (0: none)
    sockets,    \* the WebSocket objects, in the order they were accepted
    records,    \* the connection objects { socket, resumeKey, resumeTimeout }
    connections,            \* per user-id, the array of its connection objects
    socketDeleteTimeouts,   \* per resume-key, the ResumeBuffer (exists, timer, events)
    timers,     \* the resume timers set by onClientClose
    voiceServerStates,      \* per key, the stored VoiceServerState (0: none)
    voiceTimers,            \* the 20 s timers set by voiceUpdate frames
    datareq,    \* VOICE_SERVER requests of the workers, not yet handled
    cmds,       \* packets (worker specs) or client frames (SpecPool) so far
    last,       \* the step just taken
    seen        \* per worker and key, the events counted since the last PLAY

vars == <<wk, inbox, pending, nthread, playerMap, sockets, records, connections,
         socketDeleteTimeouts, timers, voiceServerStates, voiceTimers, datareq,
         cmds, last, seen>>

\* what the http upgrade handler and onClientClose keep
session == <<sockets, records, connections, socketDeleteTimeouts, timers>>

\* what the voice-server handshake keeps
voice == <<voiceServerStates, voiceTimers, datareq>>

gateway == <<inbox, pending, nthread, playerMap, session, voice>>

NoStep == [kind |-> "init", w |-> 0, pkt |-> NoPacket, pid |-> 0, o |-> 0, nplays |-> 0,
           ntracks |-> 0, before |-> NewQueue(<<0, 0>>)]

\* the record of a step on worker w: its kind, the packet, the play() call,
\* and the Queue it is about as it was before the step
Step(kind, w, pkt, pid, o) ==
    [kind |-> kind, w |-> w, pkt |-> pkt, pid |-> pid, o |-> o,
     nplays |-> Len(wk[w].plays), ntracks |-> wk[w].ntracks,
     before |-> IF o # 0 THEN wk[w].objs[o] ELSE NewQueue(<<0, 0>>)]

\* worker records at the start of a macrotask: nothing posted yet
Fresh(w) == [wk[w] EXCEPT !.out = <<>>, !.calls = <<>>]

NoneSeen == [starts |-> 0, stopped |-> FALSE]

Count(out, key, types) ==
    Cardinality({i \in 1..Len(out) : out[i].key = key /\ out[i].type \in types})

Terminators == {"TrackEndEvent", "TrackExceptionEvent", "TrackStuckEvent"}

Rearms == {"seek", "filters", "ffmpeg"}

\* what a step adds to the record kept per key: the TrackStartEvents since
\* the last call of play() and whether a STOP was handled, both started anew
\* by a PLAY that queues a track and by a destroy
Observe(w, Wn, st) ==
    [k \in Keys |->
        LET old == seen[w][k]
            starts == Count(Wn.out, k, {"TrackStartEvent"})
        IN  IF st.kind = "cmd" /\ st.pkt.key = k /\ st.pkt.dop = "destroy" THEN NoneSeen
            ELSE IF st.kind = "cmd" /\ st.pkt.key = k /\ Wn.ntracks > st.ntracks THEN NoneSeen
            ELSE [starts |-> IF Len(Wn.plays) > st.nplays /\ Wn.plays[Len(Wn.plays)].meta # NoTrack
                                /\ Wn.objs[Wn.plays[Len(Wn.plays)].q].key = k
                             THEN starts ELSE old.starts + starts,
                  stopped |-> old.stopped
                              \/ (st.kind = "cmd" /\ st.pkt.key = k /\ st.pkt.dop = "stop"
                                  /\ st.o # 0)]]

\* a macrotask of worker w that leaves it as Wn
Do(w, Wn, st) ==
    /\ wk' = [wk EXCEPT ![w] = Wn]
    /\ last' = st
    /\ seen' = [seen EXCEPT ![w] = Observe(w, Wn, st)]

Users == {k[1] : k \in Keys}

\* the resume keys a client configures (0 stands for null)
ResumeKeys == {1}

\* an absent entry of socketDeleteTimeouts
NoBuffer == [exists |-> FALSE, timeout |-> 0, events |-> <<>>]

Init ==
    /\ wk = [w \in Workers |-> NewWorker]
    /\ inbox = [w \in Workers |-> <<>>]
    /\ pending = <<>>
    /\ nthread = 0
    /\ playerMap = [k \in Keys |-> 0]
    /\ sockets = <<>>
    /\ records = <<>>
    /\ connections = [u \in Users |-> <<>>]
    /\ socketDeleteTimeouts = [rk \in ResumeKeys |-> NoBuffer]
    /\ timers = <<>>
    /\ voiceServerStates = [k \in Keys |-> 0]
    /\ voiceTimers = <<>>
    /\ datareq = <<>>
    /\ cmds = 0
    /\ last = NoStep
    /\ seen = [w \in Workers |-> [k \in Keys |-> NoneSeen]]

\* ------------------------------------------------------------ input menus
K1 == <<1, 100>>
K2 == <<1, 200>>
K3 == <<12, 100>>

\* the user-id of the client of SpecGw and SpecBeat
Owner == K1[1]

Data(dop, key) == [NoPacket EXCEPT !.op = "MESSAGE", !.dop = dop, !.key = key]

\* PLAY as pool.execute hands it over
PlayOf(key, src) == [Data("play", key) EXCEPT !.src = src]

\* PLAY as pool.broadcast hands it over
PlayAll(key, src, noReplace) ==
    [Data("play", key) EXCEPT !.src = src, !.broadcasted = TRUE, !.threadID = 1,
                              !.noReplace = noReplace]

\* the packets of Spec: playing, replacing, stopping, pausing
PlayPackets ==
    { PlayOf(K1, "youtube"), [PlayOf(K1, "local") EXCEPT !.startTime = 1],
      [PlayOf(K1, "youtube") EXCEPT !.pause = TRUE],
      PlayAll(K1, "youtube", TRUE), PlayAll(K1, "youtube", FALSE),
      Data("stop", K1),
      [Data("pause", K1) EXCEPT !.pause = TRUE], [Data("pause", K1) EXCEPT !.pause = FALSE] }

\* the packets of SpecRearm: seek, filters and ffmpeg on a track
RearmPackets ==
    { PlayOf(K1, "youtube"), PlayOf(K1, "local"),
      [Data("seek", K1) EXCEPT !.position = 1],
      [Data("filters", K1) EXCEPT !.filters = [NoSpec EXCEPT !.tremolo = TRUE]],
      [Data("filters", K1) EXCEPT !.filters = NoSpec],
      [Data("ffmpeg", K1) EXCEPT !.args = <<"atempo=2">>] }

\* the packets of SpecDestroy: two rooms of one client on one worker
DestroyPackets ==
    { PlayOf(K1, "youtube"), PlayOf(K2, "local"),
      Data("destroy", K1), Data("destroy", K2),
      [Data("pause", K1) EXCEPT !.pause = TRUE],
      [NoPacket EXCEPT !.op = "DELETE_ALL", !.key = <<1, 0>>, !.threadID = 1],
      [NoPacket EXCEPT !.op = "STATS", !.threadID = 1] }

\* ----------------------------------------------------------------- actions
\* The worker specifications run one worker and hand it packets directly.
TheWorker == 1

\* a packet arrives at the worker
Command(w, pkt, max) ==
    /\ cmds < max
    /\ ~wk[w].closed
    /\ Do(w, Flush(OnMessage(Fresh(w), pkt)),
          Step("cmd", w, pkt, 0, IF pkt.key \in Keys THEN wk[w].queues[pkt.key] ELSE 0))
    /\ cmds' = cmds + 1
    /\ UNCHANGED gateway

\* the source stream of play() call pid arrives: demux() runs
Fetched(w, pid) ==
    /\ wk[w].plays[pid].pc = "fetch"
    /\ Do(w, Flush(Demux(Fresh(w), pid)), Step("fetched", w, NoPacket, pid, wk[w].plays[pid].q))
    /\ UNCHANGED <<gateway, cmds>>

\* demuxProbe answers: the resource is created and play() goes on
Probed(w, pid) ==
    /\ wk[w].plays[pid].pc = "probe"
    /\ Do(w, Flush([Fresh(w) EXCEPT !.plays[pid].built = TRUE, !.plays[pid].pc = "cont"]),
          Step("probed", w, NoPacket, pid, wk[w].plays[pid].q))
    /\ UNCHANGED <<gateway, cmds>>

\* the buffering resource becomes readable: Buffering -> Playing
Readable(w, o) ==
    /\ wk[w].objs[o].status = "Buffering"
    /\ Do(w, Flush(PlayerSet(Fresh(w), o, "Playing", wk[w].objs[o].pres)),
          Step("readable", w, NoPacket, wk[w].objs[o].pres, o))
    /\ UNCHANGED <<gateway, cmds>>

\* the resource's stream ends (or closes while buffering): -> Idle
Ended(w, o) ==
    /\ wk[w].objs[o].status \in {"Buffering", "Playing"}
    /\ Do(w, Flush(PlayerSet(Fresh(w), o, "Idle", 0)),
          Step("ended", w, NoPacket, wk[w].objs[o].pres, o))
    /\ UNCHANGED <<gateway, cmds>>

\* the resource's stream fails
Errored(w, o) ==
    /\ wk[w].objs[o].status # "Idle"
    /\ Do(w, Flush(StreamError(Fresh(w), o)), Step("error", w, NoPacket, wk[w].objs[o].pres, o))
    /\ UNCHANGED <<gateway, cmds>>

\* PlayerStuckThresholdMS passes for play() call pid
StuckTimeout(w, pid) ==
    /\ wk[w].plays[pid].pc = "wait"
    /\ Do(w, Flush(Stuck(Fresh(w), pid)), Step("stuck", w, NoPacket, pid, wk[w].plays[pid].q))
    /\ UNCHANGED <<gateway, cmds>>

\* the 5 s reportInterval fires
Tick(w) ==
    /\ wk[w].ticking
    /\ Live(wk[w]) # {}
    /\ Do(w, Flush(Report(Fresh(w), Live(wk[w]))), Step("tick", w, NoPacket, 0, 0))
    /\ UNCHANGED <<gateway, cmds>>

\* time passes while a resource plays
Advance(w, o) ==
    /\ wk[w].objs[o].status = "Playing"
    /\ wk[w].plays[wk[w].objs[o].pres].dur < MaxDur
    /\ Do(w, [Fresh(w) EXCEPT !.plays[wk[w].objs[o].pres].dur = @ + 1],
          Step("advance", w, NoPacket, wk[w].objs[o].pres, o))
    /\ UNCHANGED <<gateway, cmds>>

\* what a worker does on its own
Internal(w) ==
    \/ \E pid \in 1..Len(wk[w].plays) :
          \/ Fetched(w, pid)
          \/ Probed(w, pid)
          \/ StuckTimeout(w, pid)
    \/ \E o \in 1..Len(wk[w].objs) :
          \/ Readable(w, o)
          \/ Ended(w, o)
          \/ Errored(w, o)
          \/ Advance(w, o)
    \/ Tick(w)

Next ==
    \/ \E pkt \in PlayPackets : Command(TheWorker, pkt, MaxCmds)
    \/ Internal(TheWorker)

Spec == Init /\ [][Next]_vars

NextRearm ==
    \/ \E pkt \in RearmPackets : Command(TheWorker, pkt, MaxRearms)
    \/ Internal(TheWorker)

SpecRearm == Init /\ [][NextRearm]_vars

\* the packets of SpecRate: filters that change the timescale speed
RatePackets ==
    { PlayOf(K1, "youtube"),
      [Data("filters", K1) EXCEPT !.filters = [NoSpec EXCEPT !.timescale = 2]],
      [Data("filters", K1) EXCEPT !.filters = [NoSpec EXCEPT !.timescale = 1]] }

NextRate ==
    \/ \E pkt \in RatePackets : Command(TheWorker, pkt, MaxRearms)
    \/ Internal(TheWorker)

SpecRate == Init /\ [][NextRate]_vars

\* the source stream of play() call pid cannot be fetched: the promise is
\* rejected, the rejection is logged and play() returns without a resource
FetchFailed(w, pid) ==
    /\ wk[w].plays[pid].pc = "fetch"
    /\ Do(w, Flush([Fresh(w) EXCEPT !.plays[pid].pc = "done"]),
          Step("fetchFailed", w, NoPacket, pid, wk[w].plays[pid].q))
    /\ UNCHANGED <<gateway, cmds>>

\* demuxProbe rejects: demux() logs it and settles nothing, so play() stays
\* at its await
ProbeFailed(w, pid) ==
    /\ wk[w].plays[pid].pc = "probe"
    /\ Do(w, Flush([Fresh(w) EXCEPT !.plays[pid].pc = "hung"]),
          Step("probeFailed", w, NoPacket, pid, wk[w].plays[pid].q))
    /\ UNCHANGED <<gateway, cmds>>

\* the packets of SpecFail: tracks whose arming may fail
FailPackets == {PlayOf(K1, "youtube"), PlayOf(K2, "youtube"), Data("stop", K1)}

NextFail ==
    \/ \E pkt \in FailPackets : Command(TheWorker, pkt, MaxCmds)
    \/ Internal(TheWorker)
    \/ \E pid \in 1..Len(wk[TheWorker].plays) : FetchFailed(TheWorker, pid)
    \/ \E pid \in 1..Len(wk[TheWorker].plays) : ProbeFailed(TheWorker, pid)

SpecFail == Init /\ [][NextFail]_vars

\* a packet as pool.broadcast hands it over
Cast(pkt) == [pkt EXCEPT !.broadcasted = TRUE, !.threadID = 1]

\* the packets of SpecCast: what the gateway broadcasts, and PLAY as executed
CastPackets ==
    { PlayOf(K1, "youtube"), PlayAll(K1, "youtube", FALSE),
      Cast(Data("stop", K1)), Cast(Data("destroy", K1)),
      Cast([Data("pause", K1) EXCEPT !.pause = TRUE]),
      Cast([Data("volume", K1) EXCEPT !.volume = 50]),
      Cast([NoPacket EXCEPT !.op = "STATS"]),
      Cast([NoPacket EXCEPT !.op = "DELETE_ALL", !.key = <<1, 0>>]) }

NextCast ==
    \/ \E pkt \in CastPackets : Command(TheWorker, pkt, MaxCmds)
    \/ Internal(TheWorker)

SpecCast == Init /\ [][NextCast]_vars

\* the packets of SpecTrack: tracks with a start or an end offset, queued
\* over a track that plays, is paused or is being re-armed; no SEEK
TrackPackets ==
    { PlayOf(K1, "youtube"),
      [PlayOf(K1, "youtube") EXCEPT !.startTime = 1],
      [PlayOf(K1, "youtube") EXCEPT !.endTime = 1],
      [Data("filters", K1) EXCEPT !.filters = [NoSpec EXCEPT !.tremolo = TRUE]],
      [Data("pause", K1) EXCEPT !.pause = TRUE] }

NextTrack ==
    \/ \E pkt \in TrackPackets : Command(TheWorker, pkt, MaxRearms)
    \/ Internal(TheWorker)

SpecTrack == Init /\ [][NextTrack]_vars

NextDestroy ==
    \/ \E pkt \in DestroyPackets : Command(TheWorker, pkt, MaxDestroys)
    \/ Internal(TheWorker)

SpecDestroy == Init /\ [][NextDestroy]_vars

\* --------------------------------------------------- the gateway's PLAY path
\* The pool's workers and the gateway's PLAY handler. A worker's playback
\* steps change no queue map, so SpecPool leaves them out.

\* the client frames of SpecPool: PLAY for a room
PlayFrames == {PlayOf(K1, "youtube"), PlayOf(K2, "youtube")}

\* the socket the frames of SpecPool arrive on
TheSocket == 1

\* ThreadPool: the live Queues of worker w
Load(w) == Cardinality({k \in Keys : wk[w].queues[k] # 0})

\* ThreadPool.execute: the worker with the fewest live Queues, ties to the
\* lowest index
LeastLoaded == CHOOSE w \in Workers : \A v \in Workers :
                  Load(w) < Load(v) \/ (Load(w) = Load(v) /\ w <= v)

\* ThreadPool.broadcast: the packet goes to every worker under a new thread-id
Broadcast(pkt) ==
    [w \in Workers |-> Append(inbox[w], [pkt EXCEPT !.broadcasted = TRUE,
                                                    !.threadID = nthread + 1])]

\* ThreadPool.execute: the packet goes to the least loaded worker
Execute(pkt) == [inbox EXCEPT ![LeastLoaded] = Append(@, pkt)]

\* the replies of worker record Wn to the broadcast with this thread-id
Replies(Wn, threadID) ==
    {Wn.out[i].data : i \in {i \in 1..Len(Wn.out) :
                               Wn.out[i].op = "REPLY" /\ Wn.out[i].threadID = threadID}}

\* onClientMessage, case PLAY, up to the await of pool.broadcast
OnPlayFrame(socket, pkt) ==
    /\ nthread' = nthread + 1
    /\ inbox' = Broadcast(pkt)
    /\ pending' = Append(pending, [threadID |-> nthread + 1, pkt |-> pkt, socket |-> socket,
                                   responses |-> [w \in Workers |-> -1]])
    /\ UNCHANGED <<wk, last, seen, playerMap, voice>>

\* a PLAY frame arrives at the gateway
GwPlay(pkt) ==
    /\ cmds < MaxFrames
    /\ cmds' = cmds + 1
    /\ OnPlayFrame(TheSocket, pkt)
    /\ UNCHANGED session

\* the VOICE_SERVER requests among a step's posts, in order: the key, and
\* for the record the state the gateway held when the request was posted
Requests(out) ==
    LET IsRequest(m) == m.op = "VOICE_SERVER"
        reqs == SelectSeq(out, IsRequest)
    IN  [i \in 1..Len(reqs) |-> [key |-> reqs[i].key, at |-> voiceServerStates[reqs[i].key]]]

\* worker w takes the next packet of its port; a REPLY it posts reaches the
\* pool's pending map
WorkerRecv(w) ==
    /\ inbox[w] # <<>>
    /\ LET pkt == Head(inbox[w])
           Wn == Flush(OnMessage(Fresh(w), pkt))
       IN  /\ Do(w, Wn, Step("cmd", w, pkt, 0,
                          IF pkt.key \in Keys THEN wk[w].queues[pkt.key] ELSE 0))
           /\ pending' = [i \in 1..Len(pending) |->
                            IF pending[i].threadID = pkt.threadID /\ pkt.broadcasted
                               /\ Replies(Wn, pkt.threadID) # {}
                            THEN [pending[i] EXCEPT !.responses[w] =
                                     CHOOSE d \in Replies(Wn, pkt.threadID) : TRUE]
                            ELSE pending[i]]
           /\ datareq' = datareq \o Requests(Wn.out)
    /\ inbox' = [inbox EXCEPT ![w] = Tail(@)]
    /\ UNCHANGED <<nthread, playerMap, session, voiceServerStates, voiceTimers, cmds>>

\* onClientMessage, case PLAY, after the await: every worker has replied
GwResolve(i) ==
    /\ \A w \in Workers : pending[i].responses[w] # -1
    /\ inbox' = IF \A w \in Workers : pending[i].responses[w] # 1
                THEN Execute(pending[i].pkt)
                ELSE inbox
    /\ playerMap' = [playerMap EXCEPT ![pending[i].pkt.key] = pending[i].socket]
    /\ pending' = Splice(pending, i, 1)
    /\ UNCHANGED <<wk, last, seen, nthread, session, voice, cmds>>

NextPool ==
    \/ \E pkt \in PlayFrames : GwPlay(pkt)
    \/ \E w \in Workers : WorkerRecv(w)
    \/ \E i \in 1..Len(pending) : GwResolve(i)

SpecPool == Init /\ [][NextPool]_vars

\* ------------------------------------------- the voice-server handshake
\* voiceUpdate frames, their 20 s timers, the workers' VOICE_SERVER requests
\* and the gateway's answer to them.

\* the VOICE_SERVER packet that carries the VoiceServerState v of a key
VoiceServer(key, v) == [NoPacket EXCEPT !.op = "VOICE_SERVER", !.key = key, !.sessionId = v]

\* onClientMessage, case VOICE_UPDATE: the state is stored (each frame brings
\* a new session-id, numbered by its timer), its timer set, and it is
\* broadcast
GwVoiceUpdate(key) ==
    /\ cmds < MaxFrames
    /\ cmds' = cmds + 1
    /\ voiceServerStates' = [voiceServerStates EXCEPT ![key] = Len(voiceTimers) + 1]
    /\ voiceTimers' = Append(voiceTimers, [key |-> key, live |-> TRUE])
    /\ nthread' = nthread + 1
    /\ inbox' = Broadcast(VoiceServer(key, Len(voiceTimers) + 1))
    /\ UNCHANGED <<wk, last, seen, pending, playerMap, session, datareq>>

\* a 20 s timer fires: timers of one delay fire in the order they were set
VoiceExpire(t) ==
    /\ voiceTimers[t].live
    /\ \A u \in 1..(t - 1) : ~voiceTimers[u].live
    /\ voiceTimers' = [voiceTimers EXCEPT ![t].live = FALSE]
    /\ voiceServerStates' = [voiceServerStates EXCEPT ![voiceTimers[t].key] = 0]
    /\ UNCHANGED <<wk, last, seen, inbox, pending, nthread, playerMap, session, datareq, cmds>>

\* pool.on("datareq") without its broadcast
DataReqSilent ==
    /\ datareq # <<>>
    /\ datareq' = Tail(datareq)
    /\ UNCHANGED <<nthread, inbox>>
    /\ UNCHANGED <<wk, last, seen, pending, playerMap, session, voiceServerStates, voiceTimers,
                   cmds>>

\* pool.on("datareq") for the oldest VOICE_SERVER request of a worker
DataReq ==
    /\ datareq # <<>>
    /\ datareq' = Tail(datareq)
    /\ IF voiceServerStates[Head(datareq).key] # 0
       THEN /\ nthread' = nthread + 1
            /\ inbox' = Broadcast(VoiceServer(Head(datareq).key,
                                              voiceServerStates[Head(datareq).key]))
       ELSE UNCHANGED <<nthread, inbox>>
    /\ UNCHANGED <<wk, last, seen, pending, playerMap, session, voiceServerStates, voiceTimers,
                   cmds>>

\* the frames of SpecVoice: voiceUpdate and PLAY for one room
VoiceFrames == {PlayOf(K1, "youtube")}

NextVoice ==
    \/ \E pkt \in VoiceFrames : GwVoiceUpdate(pkt.key)
    \/ \E pkt \in VoiceFrames : GwPlay(pkt)
    \/ \E t \in 1..Len(voiceTimers) : VoiceExpire(t)
    \/ DataReq
    \/ \E w \in Workers : WorkerRecv(w)
    \/ \E i \in 1..Len(pending) : GwResolve(i)

SpecVoice == Init /\ [][NextVoice]_vars

\* ------------------------------------------------ the gateway's sessions
\* The http upgrade handler, the connection handler, onClientClose and its
\* resume timer, and pool.on("message"). What the workers post reaches
\* pool.on("message") as an input: any event for any key.

MaxSockets == 3    \* sockets accepted in a run of SpecGw
MaxTicks == 3      \* ticks of serverLoopInterval in a run of SpecBeat
MaxInputs == 3     \* client frames and worker events in a run of SpecGw
MaxPlays == 1      \* PLAY frames among them

DefaultResumeTimeout == 60

MaxDigits == 3      \* digits of a user-id

\* the frame the connection handler sends first
StatsFrame == Msg("MESSAGE", "stats", <<0, 0>>, "", 0, 0, 0, 0)

\* the events a worker posts for the keys of a set, numbered by n
PoolEvents(keys, n) == {Event("TrackStartEvent", k, "", n) : k \in keys}

\* WebSocket.send: a frame sent on a socket that is not open is dropped
Send(socks, s, frame) ==
    IF s # 0 /\ socks[s].open THEN [socks EXCEPT ![s].sent = Append(@, frame)] ELSE socks

\* the connection objects whose socket is s
Owning(s) == {c \in 1..Len(records) : records[c].socket = s}

\* the connection objects whose resume-key is rk
WithKey(rk) == {c \in 1..Len(records) : records[c].resumeKey = rk}

\* entry.find(i => pred): the first connection object of an array that
\* passes, 0 if none
Find(entry, passing) ==
    IF \E i \in 1..Len(entry) : entry[i] \in passing
    THEN entry[CHOOSE i \in 1..Len(entry) :
                  entry[i] \in passing /\ \A j \in 1..(i - 1) : entry[j] \notin passing]
    ELSE 0

\* the array without its first connection object that passes
Without(entry, passing) ==
    IF \E i \in 1..Len(entry) : entry[i] \in passing
    THEN Splice(entry, CHOOSE i \in 1..Len(entry) :
                          entry[i] \in passing /\ \A j \in 1..(i - 1) : entry[j] \notin passing, 1)
    ELSE entry

\* socketDeleteTimeouts.get(rk), for a key that may be null
BufferOf(rk) == IF rk \in ResumeKeys THEN socketDeleteTimeouts[rk] ELSE NoBuffer

\* pool.broadcast of DELETE_ALL for a user-id
DeleteAll(user) ==
    /\ nthread' = nthread + 1
    /\ inbox' = Broadcast([NoPacket EXCEPT !.op = "DELETE_ALL", !.key = <<user, 0>>])

\* the upgrade handler without the replay loop of its resume branch
UpgradeNoReplay(user, rk) ==
    LET s == Len(sockets) + 1
        resume == BufferOf(rk)
        resumed == rk # 0 /\ resume.exists
        pre == Find(connections[user], WithKey(rk))
        pl == [socket |-> s, resumeKey |-> 0, resumeTimeout |-> DefaultResumeTimeout]
    IN  /\ Len(sockets) < MaxSockets
        /\ sockets' = Append(sockets, [user |-> user, open |-> TRUE, greeted |-> FALSE,
                                       resumed |-> resumed,
                                       isAlive |-> "unset", pings |-> 0,
                                       terminated |-> FALSE,
                                       sent |-> <<>>])
        /\ timers' = IF resumed THEN [timers EXCEPT ![resume.timeout].live = FALSE] ELSE timers
        /\ socketDeleteTimeouts' = IF resumed
                                   THEN [socketDeleteTimeouts EXCEPT ![rk] = NoBuffer]
                                   ELSE socketDeleteTimeouts
        /\ IF resumed /\ pre # 0
           THEN /\ records' = [records EXCEPT ![pre].socket = s]
                /\ UNCHANGED connections
           ELSE /\ records' = Append(records, pl)
                /\ connections' = [connections EXCEPT ![user] = Append(@, Len(records) + 1)]
        /\ UNCHANGED <<wk, inbox, pending, nthread, playerMap, voice, cmds, last, seen>>

\* http upgrade: ws.handleUpgrade's callback, with the Session-Resumed header
\* that ws.on("headers") computed for the same request
Upgrade(user, rk) ==
    LET s == Len(sockets) + 1
        resume == BufferOf(rk)
        resumed == rk # 0 /\ resume.exists
        pre == Find(connections[user], WithKey(rk))
        pl == [socket |-> s, resumeKey |-> 0, resumeTimeout |-> DefaultResumeTimeout]
    IN  /\ Len(sockets) < MaxSockets
        /\ sockets' = Append(sockets, [user |-> user, open |-> TRUE, greeted |-> FALSE,
                                       resumed |-> resumed,
                                       isAlive |-> "unset", pings |-> 0,
                                       terminated |-> FALSE,
                                       sent |-> IF resumed THEN resume.events ELSE <<>>])
        /\ timers' = IF resumed THEN [timers EXCEPT ![resume.timeout].live = FALSE] ELSE timers
        /\ socketDeleteTimeouts' = IF resumed
                                   THEN [socketDeleteTimeouts EXCEPT ![rk] = NoBuffer]
                                   ELSE socketDeleteTimeouts
        /\ IF resumed /\ pre # 0
           THEN /\ records' = [records EXCEPT ![pre].socket = s]
                /\ UNCHANGED connections
           ELSE /\ records' = Append(records, pl)
                /\ connections' = [connections EXCEPT ![user] = Append(@, Len(records) + 1)]
        /\ UNCHANGED <<wk, inbox, pending, nthread, playerMap, voice, cmds, last, seen>>

\* ws.on("connection") after its await of getStats: the stats frame is sent
\* and the message, close and error listeners are attached
Connected(s) ==
    /\ ~sockets[s].greeted
    /\ sockets' = [Send(sockets, s, StatsFrame) EXCEPT ![s].greeted = TRUE,
                                                       ![s].isAlive = "true"]
    /\ UNCHANGED <<wk, inbox, pending, nthread, playerMap, voice, records, connections,
                   socketDeleteTimeouts, timers, cmds, last, seen>>

\* the sockets of ws.clients: those whose close event has not been emitted
InClients(s) == sockets[s].open \/ sockets[s].terminated

\* the socket closes before the listeners are attached: no handler runs
EarlyClose(s) ==
    /\ InClients(s) /\ ~sockets[s].greeted
    /\ sockets' = [sockets EXCEPT ![s].open = FALSE, ![s].terminated = FALSE]
    /\ UNCHANGED <<wk, inbox, pending, nthread, playerMap, voice, records, connections,
                   socketDeleteTimeouts, timers, cmds, last, seen>>

\* onClientMessage, case CONFIGURE_RESUMING
ConfigureResuming(s, rk) ==
    LET found == Find(connections[sockets[s].user], Owning(s))
    IN  /\ cmds < MaxInputs
        /\ sockets[s].open /\ sockets[s].greeted
        /\ cmds' = cmds + 1
        /\ records' = IF found # 0 THEN [records EXCEPT ![found].resumeKey = rk] ELSE records
        /\ UNCHANGED <<wk, inbox, pending, nthread, playerMap, voice, sockets, connections,
                       socketDeleteTimeouts, timers, last, seen>>

\* onClientMessage, case PLAY, for a frame of socket s
PlayFrame(s, pkt) ==
    /\ cmds < MaxInputs
    /\ Cardinality({k \in Keys : playerMap[k] # 0}) + Len(pending) < MaxPlays
    /\ sockets[s].open /\ sockets[s].greeted
    /\ pkt.key[1] = sockets[s].user
    /\ cmds' = cmds + 1
    /\ OnPlayFrame(s, pkt)
    /\ UNCHANGED session


\* the user-id whose array holds a connection object with this socket, 0 if
\* none ([...connections.values()].find)
EntryOf(socket) ==
    IF \E u \in Users : \E i \in 1..Len(connections[u]) : records[connections[u][i]].socket = socket
    THEN CHOOSE u \in Users :
            /\ \E i \in 1..Len(connections[u]) : records[connections[u][i]].socket = socket
            /\ \A v \in Users :
                  (\E i \in 1..Len(connections[v]) : records[connections[v][i]].socket = socket)
                  => u <= v
    ELSE 0

\* entry?.find(c => c.socket): the first connection object of the array
RKey(socket) == IF EntryOf(socket) = 0 THEN 0 ELSE connections[EntryOf(socket)][1]

\* the resume-key pool.on("message") appends under, 0 if it appends nowhere
BufferedUnder(socket) ==
    IF RKey(socket) # 0 /\ BufferOf(records[RKey(socket)].resumeKey).exists
    THEN records[RKey(socket)].resumeKey
    ELSE 0

\* the record of a step of pool.on("message"): the event's key and number
Routed(msg) == [NoStep EXCEPT !.kind = "event", !.pkt.key = msg.key, !.pid = msg.track]

\* pool.on("message") for an event a worker posted
OnPoolMessage(msg) ==
    /\ cmds < MaxInputs
    /\ cmds' = cmds + 1
    /\ socketDeleteTimeouts' =
          IF BufferedUnder(playerMap[msg.key]) # 0
          THEN [socketDeleteTimeouts EXCEPT
                   ![BufferedUnder(playerMap[msg.key])].events = Append(@, msg)]
          ELSE socketDeleteTimeouts
    /\ sockets' = Send(sockets, playerMap[msg.key], msg)
    /\ last' = Routed(msg)
    /\ UNCHANGED <<wk, inbox, pending, nthread, playerMap, voice, records, connections, timers,
                   seen>>

\* key.startsWith(userID) for the key `${userID}.${guildId}` of decimal ids:
\* the user-id's digits are a prefix of the digits of the key's user-id
StartsWith(k, user) == \E n \in 0..MaxDigits : k[1] \div (10 ^ n) = user

\* onClientClose for a socket whose listeners are attached
Close(s) ==
    LET user == sockets[s].user
        found == Find(connections[user], Owning(s))
    IN  /\ InClients(s) /\ sockets[s].greeted
        /\ sockets' = [sockets EXCEPT ![s].open = FALSE, ![s].terminated = FALSE]
        /\ IF found # 0 /\ records[found].resumeKey # 0
           THEN /\ timers' = Append(timers, [user |-> user, found |-> found, live |-> TRUE])
                /\ socketDeleteTimeouts' =
                      [socketDeleteTimeouts EXCEPT ![records[found].resumeKey] =
                          [exists |-> TRUE, timeout |-> Len(timers) + 1, events |-> <<>>]]
                /\ UNCHANGED <<connections, inbox, nthread>>
           ELSE IF found # 0
           THEN /\ connections' = [connections EXCEPT ![user] = Without(@, {found})]
                /\ DeleteAll(user)
                /\ UNCHANGED <<timers, socketDeleteTimeouts>>
           ELSE UNCHANGED <<timers, socketDeleteTimeouts, connections, inbox, nthread>>
        /\ voiceServerStates' = [k \in Keys |-> IF StartsWith(k, user) THEN 0
                                                ELSE voiceServerStates[k]]
        /\ UNCHANGED <<wk, pending, playerMap, records, voiceTimers, datareq, cmds, last, seen>>

\* the resume timer of onClientClose fires
TimerFire(t) ==
    LET user == timers[t].user
        rk == records[timers[t].found].resumeKey
    IN  /\ timers[t].live
        /\ timers' = [timers EXCEPT ![t].live = FALSE]
        /\ connections' = [connections EXCEPT ![user] = Without(@, WithKey(rk))]
        /\ socketDeleteTimeouts' = IF rk \in ResumeKeys
                                   THEN [socketDeleteTimeouts EXCEPT ![rk] = NoBuffer]
                                   ELSE socketDeleteTimeouts
        /\ DeleteAll(user)
        /\ UNCHANGED <<wk, pending, playerMap, sockets, records, voice, cmds, last, seen>>

\* socketHeartbeat: a pong arrives on a socket whose listener is attached
Pong(s) ==
    /\ sockets[s].open /\ sockets[s].greeted
    /\ sockets[s].pings > 0 /\ sockets[s].isAlive = "false"
    /\ sockets' = [sockets EXCEPT ![s].isAlive = "true"]
    /\ UNCHANGED <<wk, inbox, pending, nthread, playerMap, voice, records, connections,
                   socketDeleteTimeouts, timers, cmds, last, seen>>

\* client.terminate(): the socket is no longer open; its close event is
\* emitted later
Terminate(socks, s) ==
    IF socks[s].open THEN [socks EXCEPT ![s].open = FALSE, ![s].terminated = TRUE] ELSE socks

\* the for loop of serverLoopInterval from client s on: the return at the
\* first client whose isAlive is false leaves the loop
RECURSIVE Beat(_, _)
Beat(socks, s) ==
    IF s > Len(socks) THEN socks
    ELSE IF ~(socks[s].open \/ socks[s].terminated) THEN Beat(socks, s + 1)
    ELSE IF socks[s].isAlive = "false" THEN Terminate(socks, s)
    ELSE Beat(IF socks[s].open
              THEN [socks EXCEPT ![s].isAlive = "false", ![s].pings = @ + 1,
                                 ![s].sent = Append(@, StatsFrame)]
              ELSE [socks EXCEPT ![s].isAlive = "false"],
              s + 1)

\* serverLoopInterval after its await of getStats
ServerLoop ==
    /\ cmds < MaxTicks
    /\ cmds' = cmds + 1
    /\ sockets' = Beat(sockets, 1)
    /\ last' = [NoStep EXCEPT !.kind = "beat", !.pid = cmds + 1]
    /\ UNCHANGED <<wk, inbox, pending, nthread, playerMap, voice, records, connections,
                   socketDeleteTimeouts, timers, seen>>

NextBeat ==
    \/ Upgrade(Owner, 0)
    \/ \E s \in 1..Len(sockets) : Connected(s)
    \/ \E s \in 1..Len(sockets) : Pong(s)
    \/ ServerLoop
    \/ \E s \in 1..Len(sockets) : EarlyClose(s)
    \/ \E s \in 1..Len(sockets) : Close(s)
    \/ \E w \in Workers : WorkerRecv(w)

SpecBeat == Init /\ [][NextBeat]_vars

\* the frames and headers of SpecGw
GwFrames == {PlayOf(K1, "youtube")}

NextGw ==
    \/ \E rk \in ResumeKeys \cup {0} : Upgrade(Owner, rk)
    \/ \E s \in 1..Len(sockets) : Connected(s)
    \/ \E s \in 1..Len(sockets) : EarlyClose(s)
    \/ \E s \in 1..Len(sockets) : Close(s)
    \/ \E s \in 1..Len(sockets) : \E rk \in ResumeKeys : ConfigureResuming(s, rk)
    \/ \E s \in 1..Len(sockets) : \E pkt \in GwFrames : PlayFrame(s, pkt)
    \/ \E msg \in PoolEvents({K1}, cmds + 1) : OnPoolMessage(msg)
    \/ \E t \in 1..Len(timers) : TimerFire(t)
    \/ \E w \in Workers : WorkerRecv(w)
    \/ \E i \in 1..Len(pending) : GwResolve(i)

SpecGw == Init /\ [][NextGw]_vars

\* onClientMessage, case VOICE_UPDATE, for a frame of socket s
VoiceFrame(s, key) ==
    /\ sockets[s].open /\ sockets[s].greeted
    /\ key[1] = sockets[s].user
    /\ GwVoiceUpdate(key)

\* clients of two user-ids that send voiceUpdate frames and close
NextLeave ==
    \/ \E u \in Users : Upgrade(u, 0)
    \/ \E s \in 1..Len(sockets) : Connected(s)
    \/ \E s \in 1..Len(sockets) : \E key \in {K1, K3} : VoiceFrame(s, key)
    \/ \E s \in 1..Len(sockets) : Close(s)
    \/ \E w \in Workers : WorkerRecv(w)

SpecLeave == Init /\ [][NextLeave]_vars

\* two clients with different user-ids, either of which may present a
\* Resume-Key
NextShare ==
    \/ \E u \in Users : \E rk \in ResumeKeys \cup {0} : Upgrade(u, rk)
    \/ \E s \in 1..Len(sockets) : Connected(s)
    \/ \E s \in 1..Len(sockets) : Close(s)
    \/ \E s \in 1..Len(sockets) : \E rk \in ResumeKeys : ConfigureResuming(s, rk)
    \/ \E s \in 1..Len(sockets) : \E pkt \in GwFrames : PlayFrame(s, pkt)
    \/ \E msg \in PoolEvents({K1}, cmds + 1) : OnPoolMessage(msg)
    \/ \E t \in 1..Len(timers) : TimerFire(t)
    \/ \E w \in Workers : WorkerRecv(w)
    \/ \E i \in 1..Len(pending) : GwResolve(i)

SpecShare == Init /\ [][NextShare]_vars

\* ------------------------------------------------------------------ claims
\* C1: in every reachable state, for every key, at most one worker's queue
\* map holds a Queue for that key.
OneOwnerPerKey ==
    \A k \in Keys : Cardinality({w \in Workers : wk[w].queues[k] # 0}) <= 1

\* the worker and the Queue object of the step just taken
LastQ == wk[last.w].objs[last.o]

\* the events the step just taken posted for the Queue's key, by reason
Ends(reasons) ==
    {i \in 1..Len(wk[last.w].out) :
        /\ wk[last.w].out[i].op = "MESSAGE"
        /\ wk[last.w].out[i].key = last.before.key
        /\ wk[last.w].out[i].type = "TrackEndEvent"
        /\ wk[last.w].out[i].reason \in reasons}

\* every MESSAGE the step just taken posted for the Queue's key
Posted ==
    {i \in 1..Len(wk[last.w].out) :
        wk[last.w].out[i].op = "MESSAGE" /\ wk[last.w].out[i].key = last.before.key}

\* the step just taken handled a packet of this data op for an existing Queue
Handled(dops) == last.kind = "cmd" /\ last.pkt.op = "MESSAGE" /\ last.pkt.dop \in dops /\ last.o # 0

\* a play() call that has not yet come to its resource
InFlight(p) == p.pc \in {"fetch", "probe"}

\* a play() call that destroyed the resource it built
Discarded(p) == p.built /\ ~p.installed /\ p.pc = "done"

\* C2: for every key, at most one TrackStartEvent is posted per call of
\* play() since the last PLAY that queued a track (no destroy since), and no
\* step posts more than one terminating event (TrackEndEvent,
\* TrackExceptionEvent, TrackStuckEvent) for the key.
OneStartOneTerminator ==
    \A w \in Workers : \A k \in Keys :
        seen[w][k].starts <= 1 /\ Count(wk[w].out, k, Terminators) <= 1

\* C3: when the stream in flight ends while the play() launched by a FILTERS,
\* SEEK or FFMPEG on a playing track is under way (the chain not empty), no
\* TrackEndEvent is posted.
RearmSuppressesEnd ==
    (/\ last.kind = "ended"
     /\ LastQ.filters # <<>>
     /\ \E pid \in 1..Len(wk[last.w].plays) :
           /\ wk[last.w].plays[pid].q = last.o
           /\ wk[last.w].plays[pid].by \in Rearms
           /\ wk[last.w].plays[pid].onPlaying
           /\ InFlight(wk[last.w].plays[pid]))
    => Ends({"FINISHED", "STOPPED", "REPLACED"}) = {}

\* C4: the resource that a play() launched by SEEK, FILTERS or FFMPEG builds
\* is handed to the player: such a call never ends with its resource built
\* and not installed.
RearmInstallsResource ==
    \A w \in Workers : \A pid \in 1..Len(wk[w].plays) :
        wk[w].plays[pid].by \in Rearms => ~Discarded(wk[w].plays[pid])

\* C5: a seek, filters or ffmpeg packet that arrives while the play() launched
\* by an earlier one is still in flight launches no play().
SecondRearmLaunchesNone ==
    (/\ Handled(Rearms)
     /\ \E pid \in 1..last.nplays :
           /\ wk[last.w].plays[pid].q = last.o
           /\ wk[last.w].plays[pid].by \in Rearms
           /\ InFlight(wk[last.w].plays[pid]))
    => Len(wk[last.w].plays) = last.nplays

\* C6: in a step in which a play() destroys the resource it built because
\* applyingFilters is set, another play() of the same Queue is in flight.
DiscardHasSuccessor ==
    [][\A w \in Workers : \A pid \in 1..Len(wk'[w].plays) :
          (/\ Discarded(wk'[w].plays[pid])
           /\ ~(pid <= Len(wk[w].plays) /\ Discarded(wk[w].plays[pid])))
          => \E other \in 1..Len(wk'[w].plays) :
                /\ other # pid
                /\ wk'[w].plays[other].q = wk'[w].plays[pid].q
                /\ InFlight(wk'[w].plays[other])]_vars

\* C7: a PLAY with noReplace for a key whose player is Playing leaves the
\* Queue as it was, launches no play() and posts nothing for the key.
NoReplaceChangesNothing ==
    (Handled({"play"}) /\ last.pkt.noReplace /\ last.before.status = "Playing")
    => /\ LastQ = last.before
       /\ Len(wk[last.w].plays) = last.nplays
       /\ Posted = {}

\* C7 happens: a PLAY with noReplace was handled on a playing Queue
NoReplaceOnPlaying ==
    Handled({"play"}) /\ last.pkt.noReplace /\ last.before.status = "Playing"

\* C8: a PLAY without noReplace on a Queue whose player is Playing posts one
\* TrackEndEvent REPLACED, no FINISHED or STOPPED, and leaves the new track
\* as the Queue's track with a play() launched for it.
ReplaceArmsNewTrack ==
    (Handled({"play"}) /\ ~last.pkt.noReplace /\ last.before.status = "Playing")
    => /\ Cardinality(Ends({"REPLACED"})) = 1
       /\ Ends({"FINISHED", "STOPPED"}) = {}
       /\ LastQ.track.id = last.ntracks + 1
       /\ Len(wk[last.w].plays) = last.nplays + 1

\* C9: a STOP on a Queue posts one TrackEndEvent STOPPED and no FINISHED, and
\* from then on, until a PLAY queues a track, the player is Idle and no
\* resource is current.
StopLeavesIdle ==
    /\ Handled({"stop"}) => Cardinality(Ends({"STOPPED"})) = 1 /\ Ends({"FINISHED"}) = {}
    /\ \A w \in Workers : \A k \in Keys :
          (seen[w][k].stopped /\ wk[w].queues[k] # 0)
          => /\ wk[w].objs[wk[w].queues[k]].status = "Idle"
             /\ wk[w].objs[wk[w].queues[k]].current = 0

\* C10: destroy() marks the Queue destroyed, clears its track, stops the
\* player, destroys the connection, takes the key out of the map, posts no
\* event for the key, and posts CLOSE exactly when the map became empty; a
\* second destroy() changes nothing and posts nothing; no Queue in the map is
\* a destroyed one.
DestroyOnceAndForAll ==
    /\ Handled({"destroy"})
       => /\ LastQ.destroyed
          /\ LastQ.track = NoTrack
          /\ LastQ.status = "Idle"
          /\ LastQ.conn = "destroyed"
          /\ wk[last.w].queues[last.before.key] = 0
          /\ Posted = {}
          /\ Cardinality({i \in 1..Len(wk[last.w].out) : wk[last.w].out[i].op = "CLOSE"})
                = IF \A k \in Keys : wk[last.w].queues[k] = 0 THEN 1 ELSE 0
    /\ \A w \in Workers : \A o \in 1..Len(wk[w].objs) :
          wk[w].objs[o].destroyed => Destroy(wk[w], o) = wk[w]
    /\ \A w \in Workers : \A k \in Keys :
          wk[w].queues[k] # 0 => ~wk[w].objs[wk[w].queues[k]].destroyed

\* C10 happens: a destroy was handled on a Queue whose player was Playing
\* while another Queue stays in the map
DestroyedWhilePlaying ==
    /\ Handled({"destroy"})
    /\ last.before.status = "Playing"
    /\ \E k \in Keys : wk[last.w].queues[k] # 0
\* -------------------------------------------------- claims on the gateway

\* the socket an upgrade step has just accepted, 0 if the step is no upgrade
Accepted == IF Len(sockets') = Len(sockets) + 1 THEN Len(sockets') ELSE 0

Range(seq) == {seq[i] : i \in 1..Len(seq)}

\* C12: an event is routed one way: while it sits in an active ResumeBuffer
\* it has been sent on no socket, and the buffer it sits in is the one of the
\* connection that owns the socket of playerMap for the event's key.
RoutedOneWay ==
    \A rk \in ResumeKeys : \A e \in Range(socketDeleteTimeouts[rk].events) :
        /\ \A s \in 1..Len(sockets) : e \notin Range(sockets[s].sent)
        /\ \E c \in 1..Len(records) :
              records[c].socket = playerMap[e.key] /\ records[c].resumeKey = rk

\* the event pool.on("message") has just handled, NoStep's packet otherwise
EventRouted == last'.kind = "event" /\ last' # last

\* C13: in a session of one connection that played a key, disconnected and
\* resumed, an event posted for the key after the resume is delivered on the
\* resumed socket, after whatever that socket was sent before.
NoneLostAcrossResume ==
    [][(/\ EventRouted
        /\ Len(records) = 1
        /\ playerMap[last'.pkt.key] # 0
        /\ sockets[records[1].socket].resumed
        /\ sockets[records[1].socket].open)
       => sockets'[records[1].socket].sent =
             Append(sockets[records[1].socket].sent,
                    Event("TrackStartEvent", last'.pkt.key, "", last'.pid))]_vars

\* the resume-keys whose ResumeBuffer exists with its timer pending, for a
\* connection of this user that owns this socket
Resumable(user, socket) ==
    {rk \in ResumeKeys :
        /\ socketDeleteTimeouts[rk].exists
        /\ timers[socketDeleteTimeouts[rk].timeout].live
        /\ timers[socketDeleteTimeouts[rk].timeout].user = user
        /\ \E c \in 1..Len(records) : records[c].socket = socket /\ records[c].resumeKey = rk}

\* C14: after a connection with a resume-key has closed and until its timer
\* expires, no worker destroys a queue of that user that plays for the
\* closed connection's socket.
NoDestroyBeforeExpiry ==
    [][\A w \in Workers : \A k \in Keys :
          (wk[w].queues[k] # 0 /\ wk'[w].queues[k] = 0)
          => Resumable(k[1], playerMap[k]) = {}]_vars

\* C15: an upgrade that carries a Resume-Key whose ResumeBuffer exists is
\* answered Session-Resumed: true, removes the buffer and leaves no pending
\* timer for the connection it resumes; any other upgrade is answered
\* Session-Resumed: false, replays nothing and adds a new connection record.
ResumeCancelsTimer ==
    [][Accepted # 0 =>
          IF \E rk \in ResumeKeys : socketDeleteTimeouts[rk].exists /\ ~socketDeleteTimeouts'[rk].exists
          THEN /\ sockets'[Accepted].resumed
               /\ \A t \in 1..Len(timers') :
                     timers'[t].live => records'[timers'[t].found].socket # Accepted
          ELSE /\ ~sockets'[Accepted].resumed
               /\ sockets'[Accepted].sent = <<>>
               /\ Len(records') = Len(records) + 1
               /\ records'[Len(records')] =
                     [socket |-> Accepted, resumeKey |-> 0, resumeTimeout |-> DefaultResumeTimeout]]_vars

\* --------------------------------------------------- claims on the worker

\* the step of the worker is a seek command, or installs the resource of a
\* play() that took its -ss from a seek
AcrossSeek(o) ==
    \/ last'.kind = "cmd" /\ last'.pkt.dop = "seek"
    \/ /\ wk'[TheWorker].objs[o].current # wk[TheWorker].objs[o].current
       /\ wk'[TheWorker].objs[o].current # 0
       /\ Len(wk'[TheWorker].plays[wk'[TheWorker].objs[o].current].pre) = 2

\* C16: while a started track stays the Queue's track, the position the
\* state getter reports does not decrease over a step, except across a seek.
PositionNeverDecreases ==
    [][\A o \in 1..Len(wk[TheWorker].objs) :
          (/\ wk[TheWorker].objs[o].status \in {"Playing", "Paused"}
           /\ wk[TheWorker].objs[o].track # NoTrack
           /\ wk'[TheWorker].objs[o].track = wk[TheWorker].objs[o].track
           /\ ~AcrossSeek(o))
          => Position(wk'[TheWorker], o) >= Position(wk[TheWorker], o)]_vars

\* C17: a tick of reportInterval posts exactly one playerUpdate for each
\* Queue of the map whose player is Playing and none for one whose player
\* is Paused.
TickReportsEachPlaying ==
    [][last'.kind = "tick" =>
          \A k \in Keys :
              LET o == wk[TheWorker].queues[k]
              IN  o # 0 =>
                     /\ wk[TheWorker].objs[o].status = "Playing"
                        => Count(wk'[TheWorker].out, k, {"playerUpdate"}) = 1
                     /\ wk[TheWorker].objs[o].status = "Paused"
                        => Count(wk'[TheWorker].out, k, {"playerUpdate"}) = 0]_vars

\* C18: when the arming of a track fails, one TrackExceptionEvent is posted
\* for the Queue's key and the Queue stays in the worker's map.
ArmFailureIsReported ==
    [][last'.kind \in {"fetchFailed", "probeFailed"} =>
          /\ Count(wk'[TheWorker].out, last'.before.key, {"TrackExceptionEvent"}) = 1
          /\ wk'[TheWorker].queues[last'.before.key] = last'.o]_vars

\* C19: a Queue that holds an audio resource holds a track.
CurrentHasTrack ==
    \A w \in Workers : \A o \in 1..Len(wk[w].objs) :
        wk[w].objs[o].current # 0 => wk[w].objs[o].track # NoTrack

\* the tracks the workers 1..n have handed to Queue.queue
RECURSIVE Enqueued(_)
Enqueued(n) == IF n = 0 THEN 0 ELSE wk[n].ntracks + Enqueued(n - 1)

\* C20: each PLAY frame the gateway accepted has its track enqueued on at
\* most one worker: the workers have enqueued no more tracks than there
\* were frames.
EnqueuedOncePerFrame == Enqueued(NWorkers) <= cmds

\* the REPLY messages of a step's posts that carry this thread-id
RepliesTo(out, threadID) ==
    Cardinality({i \in 1..Len(out) : out[i].op = "REPLY" /\ out[i].threadID = threadID})

\* C21: a worker that takes a broadcast packet posts exactly one REPLY with
\* the packet's thread-id, whatever the op and whether or not it holds a
\* queue for the key.
EveryBroadcastReplied ==
    [][(last'.kind = "cmd" /\ last'.pkt.broadcasted)
       => RepliesTo(wk'[TheWorker].out, last'.pkt.threadID) = 1]_vars

\* C22: a 20 s timer that fires removes only the VoiceServerState stored by
\* the voiceUpdate that set it; a state stored by a later voiceUpdate stays
\* until its own timer fires.
ExpiryRemovesOwnState ==
    [][\A t \in 1..Len(voiceTimers) :
          (voiceTimers[t].live /\ ~voiceTimers'[t].live)
          => voiceServerStates[voiceTimers[t].key] \in {0, t}]_vars

\* the gateway has just handled a worker's VOICE_SERVER request
Requested == Len(datareq') < Len(datareq)

\* worker w has just taken a VOICE_SERVER packet
TookVoiceServer(w) ==
    /\ Len(inbox'[w]) < Len(inbox[w])
    /\ Head(inbox[w]).op = "VOICE_SERVER"

\* the callbacks a VOICE_SERVER packet makes an adapter run
Callbacks(pkt) == << <<"onVoiceStateUpdate", pkt.key, pkt.sessionId>>,
                     <<"onVoiceServerUpdate", pkt.key, pkt.sessionId>> >>

\* C23, as first stated: a worker's VOICE_SERVER request for a key whose
\* state was stored when the PLAY created the Queue is answered by a
\* broadcast of the state.
StoredAtPlayIsReplayed ==
    [][(Requested /\ Head(datareq).at # 0) => nthread' = nthread + 1]_vars

\* C23: a worker that creates a key's Queue registers its adapter and posts
\* one VOICE_SERVER request for the key; a request for a key whose state is
\* stored when the gateway handles it is answered by a broadcast of that state
\* to every worker; a worker that takes a VOICE_SERVER packet runs onVoiceStateUpdate
\* and then onVoiceServerUpdate with the packet's state if it has an adapter
\* for the key, and runs nothing if it has none.
ReplayReachesAdapter ==
    [][/\ \A w \in Workers : \A k \in Keys :
             (wk[w].queues[k] = 0 /\ wk'[w].queues[k] # 0)
             => /\ k \in wk'[w].methodMap
                /\ datareq' = Append(datareq, [key |-> k, at |-> voiceServerStates[k]])
       /\ (Requested /\ voiceServerStates[Head(datareq).key] # 0)
          => \A w \in Workers :
                inbox'[w] = Append(inbox[w],
                                   [VoiceServer(Head(datareq).key,
                                                voiceServerStates[Head(datareq).key])
                                       EXCEPT !.broadcasted = TRUE, !.threadID = nthread + 1])
       /\ \A w \in Workers :
             TookVoiceServer(w)
             => wk'[w].calls = IF Head(inbox[w]).key \in wk[w].methodMap
                               THEN Callbacks(Head(inbox[w]))
                               ELSE <<>>]_vars

\* C23 witness: after one voiceUpdate and one PLAY the third broadcast, the
\* gateway's answer to the request, has made the owning worker's adapter run
\* both callbacks with the stored state
AdapterFedByReplay ==
    /\ cmds = 2 /\ Len(voiceTimers) = 1
    /\ last.kind = "cmd" /\ last.pkt.op = "VOICE_SERVER" /\ last.pkt.threadID = 3
    /\ wk[last.w].queues[last.pkt.key] # 0
    /\ wk[last.w].calls = Callbacks(VoiceServer(last.pkt.key, 1))

\* C24: when PlayerStuckThresholdMS passes for a play() call whose resource
\* was handed to the player and has not been seen Playing, then if the
\* queue's track is the one the call armed exactly one TrackStuckEvent is
\* posted and nothing else, the player is Idle, track and current are
\* cleared and stopping and shouldntCallFinish are false; if the track is
\* another or none, nothing is posted and the Queue is unchanged.
StuckOnlyForArmedTrack ==
    [][last'.kind = "stuck"
       => LET W == wk[last'.w]
              Wn == wk'[last'.w]
              p == W.plays[last'.pid]
          IN  IF W.objs[p.q].track = p.meta
              THEN /\ Len(Wn.out) = 1
                   /\ Wn.out[1].type = "TrackStuckEvent"
                   /\ Wn.objs[p.q].status = "Idle"
                   /\ Wn.objs[p.q].track = NoTrack
                   /\ Wn.objs[p.q].current = 0
                   /\ ~Wn.objs[p.q].stopping
                   /\ ~Wn.objs[p.q].shouldntCallFinish
              ELSE /\ Wn.out = <<>>
                   /\ Wn.objs = W.objs]_vars

\* the elements of a filter chain that belong to a seek
SeekParts(f) ==
    LET IsSeekPart(x) == x \in {"-ss", "-accurate_seek"} \cup {Ms(n) : n \in 0..(MaxDur + SeekLead)}
    IN  SelectSeq(f, IsSeekPart)

\* C25: after a SEEK that no re-arm has consumed yet, the filter chain holds
\* exactly one seek group, -ss <ms>ms -accurate_seek with the amount of this
\* SEEK, nothing left of earlier seeks, and seekTime is that amount.
OneSeekGroup ==
    [][(/\ last'.kind = "cmd" /\ last'.pkt.dop = "seek" /\ last'.o # 0
        /\ \A i \in (last'.nplays + 1)..Len(wk'[last'.w].plays) :
              wk'[last'.w].plays[i].pc = "fetch")
       => LET q == wk'[last'.w].objs[last'.o]
              group == <<"-ss", Ms(last'.pkt.position), "-accurate_seek">>
          IN  /\ SeekParts(q.filters) = group
              /\ \E i \in 1..Len(q.filters) : SubSeq(q.filters, i, i + 2) = group
              /\ q.seekTime = last'.pkt.position]_vars

\* the play() calls of Queue o that wait for their stream
Fetching(W, o) == {pid \in 1..Len(W.plays) : W.plays[pid].q = o /\ W.plays[pid].pc = "fetch"}

\* C26: after a FILTERS command that found a pending -ss <t>ms in the chain,
\* the argument list that a waiting play() call builds from the chain starts
\* with -ss <t>ms for the same t, and its -af part holds every filter the
\* FilterSpec produced.
FiltersKeepSeek ==
    [][(/\ last'.kind = "cmd" /\ last'.pkt.dop = "filters" /\ last'.o # 0
        /\ ~last'.pkt.filters.equalizer
        /\ Includes(last'.before.filters, "-ss")
        /\ IndexOf(last'.before.filters, "-ss") < Len(last'.before.filters))
       => LET Wn == wk'[last'.w]
              t == last'.before.filters[IndexOf(last'.before.filters, "-ss") + 1]
              made == SpecFilters(last'.pkt.filters)
          IN  \A pid \in Fetching(Wn, last'.o) :
                 /\ SubSeq(Argus(Demux(Wn, pid).plays[pid]), 1, 2) = <<"-ss", t>>
                 /\ \A i \in 1..Len(made) : Includes(Demux(Wn, pid).plays[pid].af, made[i])]_vars

\* C27: the re-arm that a FILTERS command started, when it builds its
\* resource from a chain that a FILTERS command with an empty spec has left
\* empty, builds it without ffmpeg and hands it to the player.
EmptyFiltersArmPlays ==
    [][(/\ last'.kind = "probed"
        /\ wk[last'.w].objs[last'.o].filters = <<>>
        /\ wk[last'.w].plays[last'.pid].by = "filters")
       => /\ ~wk'[last'.w].plays[last'.pid].ffmpeg
          /\ wk'[last'.w].plays[last'.pid].installed
          /\ wk'[last'.w].objs[last'.o].pres = last'.pid]_vars

\* the play() calls that the step from W to Wn made build their resource
BuiltNow(W, Wn) ==
    {pid \in 1..Len(Wn.plays) : Wn.plays[pid].built /\ (pid > Len(W.plays) \/ ~W.plays[pid].built)}

\* C28: in a run without SEEK commands, when the play() call that nextSong
\* started for the queue's track builds its resource and no re-arm was
\* started since, seekTime is the track's start-ms (0 when it has none) and
\* the argument list holds -ss at most once.
FirstArmSeeksToStart ==
    [][\A pid \in BuiltNow(wk[last'.w], wk'[last'.w]) :
          LET p == wk'[last'.w].plays[pid]
              q == wk'[last'.w].objs[p.q]
          IN  (/\ p.by = "play" /\ q.track = p.meta
               /\ \A j \in (pid + 1)..Len(wk'[last'.w].plays) : wk'[last'.w].plays[j].q # p.q)
              => /\ q.seekTime = p.meta.start
                 /\ Cardinality({i \in 1..Len(Argus(p)) : Argus(p)[i] = "-ss"}) <= 1]_vars

\* the Queues whose state getter the step st reads first on worker W: all
\* the live ones at a tick, the Queue of the play() call at a transcoding arm
StateRead(W, st) ==
    IF st.kind = "tick" THEN Live(W)
    ELSE IF st.kind = "fetched"
            /\ (Len(W.objs[st.o].filters) > 0 \/ W.plays[st.pid].meta.start # 0)
    THEN {st.o}
    ELSE {}

\* C29: when a step reads the state of a Queue whose track has an end-ms and
\* whose position has reached it, no TrackEndEvent STOPPED is posted, and
\* after the step the player is Idle and track and current are cleared.
EndReachedStopsInternally ==
    [][\A o \in StateRead(wk[last'.w], last') :
          LET q == wk[last'.w].objs[o]
              qn == wk'[last'.w].objs[o]
              out == wk'[last'.w].out
          IN  (q.track # NoTrack /\ q.track.end # 0 /\ Position(wk[last'.w], o) >= q.track.end)
              => /\ \A i \in 1..Len(out) : ~(out[i].key = q.key /\ out[i].reason = "STOPPED")
                 /\ qn.status = "Idle"
                 /\ qn.track = NoTrack
                 /\ qn.current = 0]_vars

\* C30: at a tick of serverLoopInterval, every client that is open and has
\* not missed its pong gets one stats frame and one ping, and every client
\* that has missed its pong is terminated, whatever the other clients did.
BeatReachesEveryClient ==
    [][(last'.kind = "beat" /\ last' # last)
       => \A s \in 1..Len(sockets) :
             /\ (sockets[s].open /\ sockets[s].isAlive # "false")
                => /\ sockets'[s].sent = Append(sockets[s].sent, StatsFrame)
                   /\ sockets'[s].pings = sockets[s].pings + 1
             /\ (InClients(s) /\ sockets[s].isAlive = "false") => ~sockets'[s].open]_vars

\* the user-id of the connection whose close created the ResumeBuffer of rk
CreatorOf(rk) == timers[socketDeleteTimeouts[rk].timeout].user

\* C31: an upgrade whose User-Id is not that of the connection whose close
\* created a ResumeBuffer is sent none of the buffer's events, and leaves
\* the buffer and its expiry timer as they were.
ReplayOnlyToSameUser ==
    [][\A rk \in ResumeKeys :
          (/\ Accepted # 0
           /\ socketDeleteTimeouts[rk].exists
           /\ CreatorOf(rk) # sockets'[Accepted].user)
          => /\ sockets'[Accepted].sent = <<>>
             /\ socketDeleteTimeouts'[rk] = socketDeleteTimeouts[rk]
             /\ timers'[socketDeleteTimeouts[rk].timeout].live]_vars

\* the socket whose close the step handles, 0 if the step is no close
Closed ==
    IF \E s \in 1..Len(sockets) : InClients(s) /\ sockets[s].greeted
                                  /\ Len(sockets') = Len(sockets) /\ ~InClients(s)'
    THEN CHOOSE s \in 1..Len(sockets) : InClients(s) /\ sockets[s].greeted /\ ~InClients(s)'
    ELSE 0

\* C32: the close of a connection of user-id U leaves the VoiceServerState
\* of every key of another user-id as it was.
CloseKeepsOthersVoice ==
    [][Closed # 0
       => \A k \in Keys :
             k[1] # sockets[Closed].user => voiceServerStates'[k] = voiceServerStates[k]]_vars

\* C33: a step of a Queue that was destroyed before it (a stream that
\* arrives, a probe, a player transition, a stuck timeout) posts nothing and
\* hands no resource to the Queue's player.
DestroyedIsSilent ==
    [][(last' # last /\ last'.o # 0 /\ last'.before.destroyed)
       => /\ wk'[last'.w].out = <<>>
          /\ \A pid \in 1..Len(wk[last'.w].plays) :
                wk[last'.w].plays[pid].q = last'.o
                => wk'[last'.w].plays[pid].installed = wk[last'.w].plays[pid].installed]_vars

\* the play() calls of Queue o that have not built their resource yet
Unbuilt(W, o) == {pid \in 1..Len(W.plays) : W.plays[pid].q = o /\ InFlight(W.plays[pid])}

\* C34: when the player of a Queue that has a track enters Playing and no
\* play() call of the Queue is still fetching, the resource it plays was
\* built for that track, the most recently queued one, and a
\* TrackStartEvent posted in the step names the track of the resource that
\* plays.
PlayingIsLatestTrack ==
    [][(/\ last'.kind = "readable" /\ wk'[last'.w].objs[last'.o].track # NoTrack
        /\ Unbuilt(wk'[last'.w], last'.o) = {})
       => LET Wn == wk'[last'.w]
              q == Wn.objs[last'.o]
          IN  /\ Wn.plays[q.pres].meta = q.track
              /\ \A i \in 1..Len(Wn.out) :
                    Wn.out[i].type = "TrackStartEvent"
                    => Wn.out[i].track = Wn.plays[q.pres].meta.id]_vars

\* C35: in every reachable state, a Queue in a worker's map whose paused
\* flag is true has its player in the Paused state.
PausedFlagMeansPaused ==
    \A w \in Workers : \A o \in Live(wk[w]) :
       wk[w].objs[o].paused => wk[w].objs[o].status = "Paused"

====
